---------------------------- MODULE Spec2Model ----------------------------
(***************************************************************************)
(* A model of pyzstd's Python layer: the one-shot functions compress and   *)
(* decompress, the raw reader EndlessDecompressReader and the file object  *)
(* ZstdFile, in the two copies of the module the repository holds          *)
(* (src/src/pyzstd.py, the current one, and src/pyzstd.py, an older one).  *)
(*                                                                         *)
(* The native extension _zstd (ZstdCompressor, ZstdDecompressor) is not    *)
(* part of the sources; it is modelled from the specification's frame and  *)
(* block format (sections 4.3 to 4.5): a frame is a magic token followed   *)
(* by blocks, a block is a header (kind, last-block flag, size) followed   *)
(* by its payload, Raw blocks carry their bytes and RLE blocks one byte.   *)
(***************************************************************************)
EXTENDS Integers, Sequences, FiniteSets, TLC

VARIABLES
    copy,      \* which copy of the module is in use: "current" or "old"
    mode,      \* ZstdFile._mode
    closefp,   \* ZstdFile._closefp
    fpdata,    \* the bytes of the underlying file (source or sink)
    fppos,     \* read position of the underlying file
    fpcloses,  \* number of close() calls the underlying file has received
    comp,      \* ZstdFile._compressor (write mode)
    wpos,      \* ZstdFile._pos (write mode)
    flushes,   \* number of ZstdCompressor.flush() calls made by the file
    dec,       \* EndlessDecompressReader._decompressor
    rd,        \* EndlessDecompressReader: _pos, _eof, _size
    bufr,      \* io.BufferedReader: buffer contents and position in it
    pc,        \* "idle", or "raw" while a call waits in the raw reader
    call,      \* the ZstdFile call in progress and its local variables
    last,      \* outcome of the last completed call
    out,       \* bytes returned by read/read1/readline since opening
    written,   \* bytes passed to the write() calls that returned
    hist,      \* facts about the session's history
    shot       \* state of a one-shot compress()/decompress() computation

vars == <<copy, mode, closefp, fpdata, fppos, fpcloses, comp, wpos, flushes,
          dec, rd, bufr, pc, call, last, out, written, hist, shot>>

(***************************************************************************)
(* Bounds of the model.                                                    *)
(***************************************************************************)
\* longest byte string handed to compress() or to one write()
MaxLen == 2
\* io.DEFAULT_BUFFER_SIZE (= _compression.BUFFER_SIZE), scaled down
BUFFER_SIZE == 2
\* number of write() calls of a write-mode session
MaxWrites == 2
\* number of close() calls of a session
MaxCloses == 2
\* total number of bytes a write-mode session is given
MaxTotal == MaxLen + 1

Byte == {1, 2}
NEWLINE == CHOOSE b \in Byte : \A c \in Byte : c <= b

RECURSIVE SeqsUpTo(_, _)
SeqsUpTo(S, n) ==
    IF n = 0 THEN {<<>>}
    ELSE LET shorter == SeqsUpTo(S, n - 1)
         IN  shorter \cup {Append(s, x) : s \in {t \in shorter : Len(t) = n - 1}, x \in S}

Datas == SeqsUpTo(Byte, MaxLen)

Min(a, b) == IF a <= b THEN a ELSE b

Take(s, n) == SubSeq(s, 1, Min(n, Len(s)))
Drop(s, n) == SubSeq(s, Min(n, Len(s)) + 1, Len(s))

(***************************************************************************)
(* Frame wire format (spec section 6): tokens of the compressed stream.    *)
(***************************************************************************)
Magic == [k |-> "magic", last |-> FALSE, n |-> 0]
Hdr(kind, lastBlock, size) == [k |-> kind, last |-> lastBlock, n |-> size]
Lit(b) == [k |-> "lit", last |-> FALSE, n |-> b]

Lits(bytes) == [i \in 1..Len(bytes) |-> Lit(bytes[i])]

AllEqual(bytes) == \A i \in 1..Len(bytes) : bytes[i] = bytes[1]

\* One block: RLE when the bytes repeat (a shorter payload), Raw otherwise.
EncodeBlock(bytes, lastBlock) ==
    IF Len(bytes) >= 2 /\ AllEqual(bytes)
    THEN <<Hdr("rle", lastBlock, Len(bytes)), Lit(bytes[1])>>
    ELSE <<Hdr("raw", lastBlock, Len(bytes))>> \o Lits(bytes)

\* Number of payload tokens that follow a block header.
PayloadLen(h) == IF h.k = "rle" THEN (IF h.n > 0 THEN 1 ELSE 0) ELSE h.n

DecodeBlock(h, payload) ==
    IF h.k = "rle" THEN [i \in 1..h.n |-> payload[1].n]
    ELSE [i \in 1..h.n |-> payload[i].n]

(***************************************************************************)
(* ZstdCompressor (native, modelled from spec section 4.4).                *)
(***************************************************************************)
CONTINUE == "continue"
FLUSH_BLOCK == "flush_block"
FLUSH_FRAME == "flush_frame"

\* compression levels; the level selects the target block size
Levels == {1, 2}
TargetBlockSize(level) == level

NewCompressor(level) == [open |-> FALSE, pend |-> <<>>, bs |-> TargetBlockSize(level)]

\* The blocks emitted for the buffered bytes under an end directive.
RECURSIVE EmitBlocks(_, _, _)
EmitBlocks(bytes, bs, directive) ==
    IF Len(bytes) > bs
    THEN EncodeBlock(Take(bytes, bs), FALSE) \o EmitBlocks(Drop(bytes, bs), bs, directive)
    ELSE IF directive = FLUSH_FRAME THEN EncodeBlock(bytes, TRUE)
    ELSE IF directive = FLUSH_BLOCK
    THEN (IF bytes = <<>> THEN <<>> ELSE EncodeBlock(bytes, FALSE))
    ELSE IF Len(bytes) = bs THEN EncodeBlock(bytes, FALSE)
    ELSE <<>>

\* What stays buffered after the call.
Retained(bytes, bs, directive) ==
    IF directive = CONTINUE THEN Drop(bytes, (Len(bytes) \div bs) * bs) ELSE <<>>

\* ZstdCompressor.compress(data, mode): [c |-> compressor after, out |-> bytes]
ZstdCompressor_compress(c, data, directive) ==
    LET bytes  == c.pend \o data
        blocks == EmitBlocks(bytes, c.bs, directive)
        header == IF c.open \/ blocks = <<>> THEN <<>> ELSE <<Magic>>
    IN  [c   |-> [open |-> IF directive = FLUSH_FRAME THEN FALSE
                           ELSE (c.open \/ blocks # <<>>),
                  pend |-> Retained(bytes, c.bs, directive),
                  bs   |-> c.bs],
         out |-> header \o blocks]

\* ZstdCompressor.flush(): ends the frame.
ZstdCompressor_flush(c) == ZstdCompressor_compress(c, <<>>, FLUSH_FRAME)

\* RichMemZstdCompressor.compress(data): always one complete frame.
RichMemZstdCompressor_compress(level, data) ==
    ZstdCompressor_compress(NewCompressor(level), data, FLUSH_FRAME).out

(***************************************************************************)
(* ZstdDecompressor (native, modelled from spec sections 4.3 and 4.5).     *)
(***************************************************************************)
NewDecompressor ==
    [stage |-> "AwaitingFrameHeader", inbuf |-> <<>>, outpend |-> <<>>,
     needs_input |-> TRUE, at_frame_edge |-> TRUE]

Full(o, max) == max >= 0 /\ Len(o) >= max

\* The decoding loop: d is the decompressor, o the output so far (d0 and o0
\* are bound as d and o once, so that every round works on values).
RECURSIVE DecodeLoop(_, _, _)
DecodeLoop(d0, o0, max) ==
    CHOOSE res \in {
    IF d.stage = "Failed" THEN [d |-> d, out |-> o, exc |-> "ZstdError"]
    ELSE IF Full(o, max) THEN [d |-> d, out |-> o, exc |-> "none"]
    ELSE IF d.outpend # <<>>
    THEN LET k == IF max < 0 THEN Len(d.outpend) ELSE Min(max - Len(o), Len(d.outpend))
         IN  DecodeLoop([d EXCEPT !.outpend = Drop(d.outpend, k)],
                        o \o Take(d.outpend, k), max)
    ELSE IF d.inbuf = <<>> THEN [d |-> d, out |-> o, exc |-> "none"]
    ELSE LET h == Head(d.inbuf) IN
         IF d.stage = "AwaitingFrameHeader"
         THEN IF h.k = "magic"
              THEN DecodeLoop([d EXCEPT !.stage = "AwaitingBlockHeader",
                                        !.inbuf = Tail(d.inbuf)], o, max)
              ELSE [d |-> [d EXCEPT !.stage = "Failed"], out |-> o, exc |-> "ZstdError"]
         ELSE IF h.k \notin {"raw", "rle"}
         THEN [d |-> [d EXCEPT !.stage = "Failed"], out |-> o, exc |-> "ZstdError"]
         ELSE IF Len(d.inbuf) < 1 + PayloadLen(h)
         THEN [d |-> d, out |-> o, exc |-> "none"]
         ELSE LET payload == SubSeq(d.inbuf, 2, 1 + PayloadLen(h)) IN
              IF \E i \in 1..Len(payload) : payload[i].k # "lit"
              THEN [d |-> [d EXCEPT !.stage = "Failed"], out |-> o, exc |-> "ZstdError"]
              ELSE DecodeLoop([d EXCEPT
                                 !.stage = IF h.last THEN "AwaitingFrameHeader"
                                           ELSE "AwaitingBlockHeader",
                                 !.inbuf = Drop(d.inbuf, 1 + PayloadLen(h)),
                                 !.outpend = DecodeBlock(h, payload)], o, max)
    : d \in {d0}, o \in {o0}} : TRUE

\* ZstdDecompressor.decompress(data, max_length):
\* [d |-> decompressor after, out |-> bytes, exc |-> "none" or "ZstdError"];
\* r is the outcome of the decoding loop, run once
ZstdDecompressor_decompress(d, data, max_length) ==
    CHOOSE res \in {
        [d   |-> [r.d EXCEPT
                    !.needs_input = ~Full(r.out, max_length),
                    !.at_frame_edge = (r.d.stage = "AwaitingFrameHeader"
                                       /\ r.d.outpend = <<>>)],
         out |-> r.out,
         exc |-> r.exc]
        : r \in {DecodeLoop([d EXCEPT !.inbuf = d.inbuf \o data], <<>>, max_length)}} : TRUE

(***************************************************************************)
(* The one-shot functions.                                                 *)
(***************************************************************************)
Ok(v) == [exc |-> "none", ret |-> v]
Raise(e) == [exc |-> e, ret |-> <<>>]

\* Faulty variant of compress: the frame is flushed but not ended.
compress_unfinished(data, level, rich_mem) ==
    ZstdCompressor_compress(NewCompressor(level), data, FLUSH_BLOCK).out

\* compress(data, level_or_option, zstd_dict, rich_mem), current copy
compress(data, level, rich_mem) ==
    IF rich_mem
    THEN RichMemZstdCompressor_compress(level, data)
    ELSE ZstdCompressor_compress(NewCompressor(level), data, FLUSH_FRAME).out

\* compress(data, level_or_option, zstd_dict), old copy
compress_old(data, level) ==
    ZstdCompressor_compress(NewCompressor(level), data, FLUSH_FRAME).out

\* decompress(data), current copy
decompress(data) ==
    LET r == ZstdDecompressor_decompress(NewDecompressor, data, -1) IN
    IF r.exc # "none" THEN Raise(r.exc)
    ELSE IF ~r.d.at_frame_edge THEN Raise("ZstdError")
    ELSE Ok(r.out)

\* decompress(data), old copy
decompress_old(data) ==
    LET r == ZstdDecompressor_decompress(NewDecompressor, data, -1) IN
    IF r.exc # "none" THEN Raise(r.exc) ELSE Ok(r.out)

(***************************************************************************)
(* Values of the session variables when no ZstdFile exists.                *)
(***************************************************************************)
MODE_CLOSED == 0
MODE_READ == 1
MODE_WRITE == 2

\* arg, whence: the call's arguments; rewound: the call has rewound the reader
NoCall == [op |-> "none", n |-> 0, res |-> <<>>, rem |-> 0, phase |-> "none", want |-> 0,
           arg |-> 0, whence |-> 0, rewound |-> FALSE]
\* from: the stream position at which the call started
NoLast == [op |-> "none", exc |-> "none", ret |-> <<>>, val |-> 0,
           arg |-> 0, whence |-> 0, from |-> 0, rewound |-> FALSE]
NewReader == [pos |-> 0, eof |-> FALSE, size |-> -1]
NewBuffer == [buf |-> <<>>, pos |-> 0]
\* at: the stream position the calls that returned have left the file at;
\* readerr: a reading call has raised ZstdError; broken: it has, and no seek
\* has rewound the reader since
NoHist == [opened |-> "none", linear |-> TRUE, raised |-> FALSE, sinkerr |-> FALSE,
           writes |-> 0, closes |-> 0, at |-> 0, readerr |-> FALSE, broken |-> FALSE]
NoShot == [stage |-> "none"]

NoSession ==
    /\ mode = MODE_CLOSED
    /\ closefp = FALSE
    /\ fpdata = <<>>
    /\ fppos = 0
    /\ fpcloses = 0
    /\ comp = NewCompressor(1)
    /\ wpos = 0
    /\ flushes = 0
    /\ dec = NewDecompressor
    /\ rd = NewReader
    /\ bufr = NewBuffer
    /\ pc = "idle"
    /\ call = NoCall
    /\ last = NoLast
    /\ out = <<>>
    /\ written = <<>>
    /\ hist = NoHist

sessionVars == <<mode, closefp, fpdata, fppos, fpcloses, comp, wpos, flushes,
                 dec, rd, bufr, pc, call, last, out, written, hist>>

(***************************************************************************)
(* One-shot computations: b is compressed, the compressed bytes travel     *)
(* (possibly losing a suffix) and are decompressed, by either copy.        *)
(***************************************************************************)
InitOneShot ==
    /\ NoSession
    /\ copy \in {"current", "old"}
    /\ \E b \in Datas, level \in Levels, rich \in BOOLEAN :
          /\ copy = "old" => ~rich
          /\ shot = [stage |-> "input", data |-> b, level |-> level, rich_mem |-> rich,
                     wire |-> <<>>, intact |-> TRUE, result |-> Ok(<<>>)]

OneShotCompress ==
    /\ shot.stage = "input"
    /\ shot' = [shot EXCEPT
                  !.stage = "compressed",
                  !.wire = IF copy = "current"
                           THEN compress(shot.data, shot.level, shot.rich_mem)
                           ELSE compress_old(shot.data, shot.level)]
    /\ UNCHANGED <<copy, sessionVars>>

\* The compressed bytes lose a suffix on their way to the receiver.
OneShotTruncate ==
    /\ shot.stage = "compressed"
    /\ shot.intact
    /\ \E k \in 0..(Len(shot.wire) - 1) :
          shot' = [shot EXCEPT !.wire = Take(shot.wire, k), !.intact = FALSE]
    /\ UNCHANGED <<copy, sessionVars>>

OneShotDecompress ==
    /\ shot.stage = "compressed"
    /\ shot' = [shot EXCEPT
                  !.stage = "done",
                  !.result = IF copy = "current" THEN decompress(shot.wire)
                             ELSE decompress_old(shot.wire)]
    /\ UNCHANGED <<copy, sessionVars>>

NextOneShot == OneShotCompress \/ OneShotTruncate \/ OneShotDecompress

SpecOneShot == InitOneShot /\ [][NextOneShot]_vars

\* Whether a byte string ends inside a frame: a fresh decompressor that has
\* consumed all of it is not at a frame edge.
EndsInsideFrame(data) ==
    LET r == ZstdDecompressor_decompress(NewDecompressor, data, -1)
    IN  r.exc = "none" /\ ~r.d.at_frame_edge

(* C1: decompress(compress(b)) returns exactly b and raises no error, for   *)
(* every byte string b, every level and either compressor; the output of   *)
(* compress always ends at a frame edge.                                    *)
C1_RoundTrip ==
    /\ (shot.stage = "compressed" /\ shot.intact) => ~EndsInsideFrame(shot.wire)
    /\ (shot.stage = "done" /\ shot.intact) => shot.result = Ok(shot.data)

C1_Witness ==
    /\ shot.stage = "done"
    /\ shot.intact
    /\ Len(shot.data) = MaxLen
    /\ shot.result = Ok(shot.data)
    /\ shot.wire # <<Magic>> \o EncodeBlock(shot.data, TRUE)

(* C2: one-shot decompress never returns a partial result: when the data   *)
(* end inside a frame, decompress raises, in every copy of the module.      *)
C2_NoSilentPartial ==
    (shot.stage = "done" /\ EndsInsideFrame(shot.wire)) => shot.result.exc # "none"

(***************************************************************************)
(* Dictionary training: train_dict and finalize_dict.  The native trainer *)
(* (_zstd._train_dict, _zstd._finalize_dict) is modelled from the spec:   *)
(* it fails when there are no samples, and else yields a dictionary of at  *)
(* most dict_size bytes.  An outcome records whether the trainer was run.  *)
(***************************************************************************)
\* number of samples handed to train_dict
MaxSamples == 2

Samples == SeqsUpTo(Datas \ {<<>>}, MaxSamples)

\* b''.join(chunks)
RECURSIVE Join(_)
Join(chunks) == IF chunks = <<>> THEN <<>> ELSE Head(chunks) \o Join(Tail(chunks))

\* chunk_sizes
ChunkSizes(chunks) == [i \in 1..Len(chunks) |-> Len(chunks[i])]

\* _zstd._train_dict(chunks, chunk_sizes, dict_size) and _zstd._finalize_dict
Native_train_dict(chunks, chunk_sizes, dict_size) ==
    IF chunk_sizes = <<>> THEN Raise("ZstdError") ELSE Ok(Take(chunks, dict_size))

Trained(r, native) == [exc |-> r.exc, ret |-> r.ret, native |-> native]

\* train_dict(samples, dict_size), current copy
train_dict(samples, dict_size) ==
    IF samples = <<>> THEN Trained(Raise("ValueError"), FALSE)
    ELSE Trained(Native_train_dict(Join(samples), ChunkSizes(samples), dict_size), TRUE)

\* train_dict(iterable_of_chunks, dict_size), old copy
train_dict_old(samples, dict_size) ==
    Trained(Native_train_dict(Join(samples), ChunkSizes(samples), dict_size), TRUE)

\* finalize_dict(zstd_dict, samples, dict_size, level), current copy;
\* version_ok: zstd_version_info >= (1, 4, 5), is_dict: zstd_dict is a ZstdDict
finalize_dict(version_ok, is_dict, samples, dict_size) ==
    IF ~version_ok THEN Trained(Raise("NotImplementedError"), FALSE)
    ELSE IF ~is_dict THEN Trained(Raise("TypeError"), FALSE)
    ELSE IF samples = <<>> THEN Trained(Raise("ValueError"), FALSE)
    ELSE Trained(Native_train_dict(Join(samples), ChunkSizes(samples), dict_size), TRUE)

InitDict ==
    /\ NoSession
    /\ copy \in {"current", "old"}
    /\ \E samples \in Samples, size \in 1..MaxLen, fn \in {"train_dict", "finalize_dict"},
          version_ok \in BOOLEAN, is_dict \in BOOLEAN :
          /\ copy = "old" => fn = "train_dict"
          /\ fn = "train_dict" => (version_ok /\ is_dict)
          /\ shot = [stage |-> "samples", fn |-> fn, samples |-> samples,
                     dict_size |-> size, version_ok |-> version_ok,
                     is_dict |-> is_dict, result |-> Trained(Ok(<<>>), FALSE)]

TrainDict ==
    /\ shot.stage = "samples"
    /\ shot.fn = "train_dict"
    /\ shot' = [shot EXCEPT
                  !.stage = "trained",
                  !.result = IF copy = "current"
                             THEN train_dict(shot.samples, shot.dict_size)
                             ELSE train_dict_old(shot.samples, shot.dict_size)]
    /\ UNCHANGED <<copy, sessionVars>>

FinalizeDict ==
    /\ shot.stage = "samples"
    /\ shot.fn = "finalize_dict"
    /\ shot' = [shot EXCEPT
                  !.stage = "trained",
                  !.result = finalize_dict(shot.version_ok, shot.is_dict,
                                           shot.samples, shot.dict_size)]
    /\ UNCHANGED <<copy, sessionVars>>

NextDict == TrainDict \/ FinalizeDict

SpecDict == InitDict /\ [][NextDict]_vars

(* C11: with no samples, train_dict and finalize_dict raise before the     *)
(* native trainer is run and return no dictionary, in every copy.          *)
C11_EmptySamplesRejected ==
    (shot.stage = "trained" /\ shot.samples = <<>>) =>
        /\ shot.result.exc # "none"
        /\ ~shot.result.native
        /\ shot.result.ret = <<>>

(***************************************************************************)
(* The read side of a session, as one record: the part of the state the    *)
(* raw reader, the buffered reader and the calls in progress work on.      *)
(***************************************************************************)
CurM ==
    [fppos |-> fppos, dec |-> dec, rd |-> rd, bufr |-> bufr, call |-> call,
     pc |-> pc, last |-> last, out |-> out, hist |-> hist]

SetM(M) ==
    /\ fppos' = M.fppos
    /\ dec' = M.dec
    /\ rd' = M.rd
    /\ bufr' = M.bufr
    /\ call' = M.call
    /\ pc' = M.pc
    /\ last' = M.last
    /\ out' = M.out
    /\ hist' = M.hist

SYS_MAXSIZE == 2 ^ 30

Result(e, bytes, v) == [exc |-> e, ret |-> bytes, val |-> v]

\* A call returns or raises: its outcome is recorded, and the bytes a read
\* call returned are appended to the session's output.
Finish(M, r) ==
    [M EXCEPT
       !.pc = "returned",
       !.last = [op |-> M.call.op, exc |-> r.exc, ret |-> r.ret, val |-> r.val,
                 arg |-> M.call.arg, whence |-> M.call.whence, from |-> M.hist.at,
                 rewound |-> M.call.rewound],
       !.call = NoCall,
       !.out = IF M.call.op \in {"read", "read1", "readline"} /\ r.exc = "none"
                  /\ M.hist.linear
               THEN M.out \o r.ret ELSE M.out,
       !.hist.raised = (M.hist.raised \/ r.exc = "ZstdError"),
       !.hist.readerr = (M.hist.readerr
                         \/ (r.exc = "ZstdError"
                             /\ M.call.op \in {"read", "read1", "readline", "peek"})),
       !.hist.broken = IF r.exc = "ZstdError"
                          /\ M.call.op \in {"read", "read1", "readline", "peek"}
                       THEN TRUE
                       ELSE IF M.call.op = "seek" /\ M.call.rewound THEN FALSE
                       ELSE M.hist.broken,
       !.hist.at = IF r.exc # "none" THEN M.hist.at
                   ELSE IF M.call.op \in {"read", "read1", "readline"}
                   THEN M.hist.at + Len(r.ret)
                   ELSE IF M.call.op = "seek" THEN r.val
                   ELSE M.hist.at]

\* The call waits for raw.readinto() of a buffer of the given size.
Request(M, c, size) == [M EXCEPT !.pc = "raw", !.call = [c EXCEPT !.want = size]]

(***************************************************************************)
(* EndlessDecompressReader.read(size), size >= 0.                          *)
(***************************************************************************)
\* self._fp.read(_compression.BUFFER_SIZE), the source handing over k bytes
FpRead(data, pos, k) == SubSeq(data, pos + 1, Min(pos + Min(k, BUFFER_SIZE), Len(data)))

\* Faulty variant of the loop: it also stops, with no data, when the
\* decompressor has just reached the end of a frame.
EndlessDecompressReader_read_loop_frame_end(M, data, size, k) ==
    LET in_dat == IF M.dec.needs_input THEN FpRead(data, M.fppos, k) ELSE <<>>
    IN  IF M.dec.needs_input /\ in_dat = <<>>
        THEN [go |-> "break", M |-> M, data |-> <<>>]
        ELSE LET r  == ZstdDecompressor_decompress(M.dec, in_dat, size)
                 M2 == [M EXCEPT !.fppos = M.fppos + Len(in_dat), !.dec = r.d]
             IN  IF r.exc # "none" THEN [go |-> "raise", M |-> M2, data |-> <<>>]
                 ELSE IF r.out # <<>> \/ r.d.at_frame_edge
                 THEN [go |-> "break", M |-> M2, data |-> r.out]
                 ELSE [go |-> "again", M |-> M2, data |-> <<>>]

\* Faulty variant of the loop: it stops whenever it has no input to pass,
\* also when the decompressor asked for none.
EndlessDecompressReader_read_loop_no_input(M, data, size, k) ==
    LET in_dat == IF M.dec.needs_input THEN FpRead(data, M.fppos, k) ELSE <<>>
    IN  IF in_dat = <<>>
        THEN [go |-> "break", M |-> M, data |-> <<>>]
        ELSE LET r  == ZstdDecompressor_decompress(M.dec, in_dat, size)
                 M2 == [M EXCEPT !.fppos = M.fppos + Len(in_dat), !.dec = r.d]
             IN  IF r.exc # "none" THEN [go |-> "raise", M |-> M2, data |-> <<>>]
                 ELSE IF r.out # <<>> THEN [go |-> "break", M |-> M2, data |-> r.out]
                 ELSE [go |-> "again", M |-> M2, data |-> <<>>]

\* Faulty variant of the loop: it stops after one call of the decompressor,
\* whether or not the call produced output.
EndlessDecompressReader_read_loop_once(M, data, size, k) ==
    LET in_dat == IF M.dec.needs_input THEN FpRead(data, M.fppos, k) ELSE <<>>
    IN  IF M.dec.needs_input /\ in_dat = <<>>
        THEN [go |-> "break", M |-> M, data |-> <<>>]
        ELSE LET r  == ZstdDecompressor_decompress(M.dec, in_dat, size)
                 M2 == [M EXCEPT !.fppos = M.fppos + Len(in_dat), !.dec = r.d]
             IN  IF r.exc # "none" THEN [go |-> "raise", M |-> M2, data |-> <<>>]
                 ELSE [go |-> "break", M |-> M2, data |-> r.out]

\* Faulty variant of the loop: it reads the source in every pass, also when
\* the decompressor asked for no input.
EndlessDecompressReader_read_loop_always_fetch(M, data, size, k) ==
    LET in_dat == FpRead(data, M.fppos, k)
    IN  IF M.dec.needs_input /\ in_dat = <<>>
        THEN [go |-> "break", M |-> M, data |-> <<>>]
        ELSE LET r  == ZstdDecompressor_decompress(M.dec, in_dat, size)
                 M2 == [M EXCEPT !.fppos = M.fppos + Len(in_dat), !.dec = r.d]
             IN  IF r.exc # "none" THEN [go |-> "raise", M |-> M2, data |-> <<>>]
                 ELSE IF r.out # <<>> THEN [go |-> "break", M |-> M2, data |-> r.out]
                 ELSE [go |-> "again", M |-> M2, data |-> <<>>]

\* Faulty variant of the loop: when the source has no more bytes it does not
\* break, it goes round again.
EndlessDecompressReader_read_loop_no_break(M, data, size, k) ==
    LET in_dat == IF M.dec.needs_input THEN FpRead(data, M.fppos, k) ELSE <<>>
    IN  IF M.dec.needs_input /\ in_dat = <<>>
        THEN [go |-> "again", M |-> M, data |-> <<>>]
        ELSE LET r  == ZstdDecompressor_decompress(M.dec, in_dat, size)
                 M2 == [M EXCEPT !.fppos = M.fppos + Len(in_dat), !.dec = r.d]
             IN  IF r.exc # "none" THEN [go |-> "raise", M |-> M2, data |-> <<>>]
                 ELSE IF r.out # <<>> THEN [go |-> "break", M |-> M2, data |-> r.out]
                 ELSE [go |-> "again", M |-> M2, data |-> <<>>]

\* One pass of the `while True` loop: go is "again", "break" or "raise".
EndlessDecompressReader_read_loop(M, data, size, k) ==
    LET in_dat == IF M.dec.needs_input THEN FpRead(data, M.fppos, k) ELSE <<>>
    IN  IF M.dec.needs_input /\ in_dat = <<>>
        THEN [go |-> "break", M |-> M, data |-> <<>>]
        ELSE LET r  == ZstdDecompressor_decompress(M.dec, in_dat, size)
                 M2 == [M EXCEPT !.fppos = M.fppos + Len(in_dat), !.dec = r.d]
             IN  IF r.exc # "none" THEN [go |-> "raise", M |-> M2, data |-> <<>>]
                 ELSE IF r.out # <<>> THEN [go |-> "break", M |-> M2, data |-> r.out]
                 ELSE [go |-> "again", M |-> M2, data |-> <<>>]

\* Faulty variant of the end of read(): the test of at_frame_edge comes
\* first, also when the loop has produced data.
EndlessDecompressReader_read_end_strict(M, data) ==
    IF ~M.dec.at_frame_edge
    THEN [M |-> M, r |-> Raise("ZstdError")]
    ELSE IF data = <<>>
    THEN [M |-> [M EXCEPT !.rd.eof = TRUE, !.rd.size = M.rd.pos], r |-> Ok(<<>>)]
    ELSE [M |-> [M EXCEPT !.rd.pos = M.rd.pos + Len(data)], r |-> Ok(data)]

\* Faulty variant of the end of read(): the position is not advanced.
EndlessDecompressReader_read_end_no_pos(M, data) ==
    IF data = <<>>
    THEN IF ~M.dec.at_frame_edge
         THEN [M |-> M, r |-> Raise("ZstdError")]
         ELSE [M |-> [M EXCEPT !.rd.eof = TRUE, !.rd.size = M.rd.pos], r |-> Ok(<<>>)]
    ELSE [M |-> M, r |-> Ok(data)]

\* Faulty variant of the end of read(): the EOF flag and the size are set
\* before the test of at_frame_edge, so also by a read that raises.
EndlessDecompressReader_read_end_eof_first(M, data) ==
    IF data = <<>>
    THEN LET M2 == [M EXCEPT !.rd.eof = TRUE, !.rd.size = M.rd.pos] IN
         IF ~M.dec.at_frame_edge
         THEN [M |-> M2, r |-> Raise("ZstdError")]
         ELSE [M |-> M2, r |-> Ok(<<>>)]
    ELSE [M |-> [M EXCEPT !.rd.pos = M.rd.pos + Len(data)], r |-> Ok(data)]

\* After the loop, current copy: [M |-> state, r |-> what read() returns]
EndlessDecompressReader_read_end(M, data) ==
    IF data = <<>>
    THEN IF ~M.dec.at_frame_edge
         THEN [M |-> M, r |-> Raise("ZstdError")]
         ELSE [M |-> [M EXCEPT !.rd.eof = TRUE, !.rd.size = M.rd.pos], r |-> Ok(<<>>)]
    ELSE [M |-> [M EXCEPT !.rd.pos = M.rd.pos + Len(data)], r |-> Ok(data)]

\* After the loop, old copy
EndlessDecompressReader_read_end_old(M, data) ==
    IF data = <<>>
    THEN [M |-> [M EXCEPT !.rd.eof = TRUE, !.rd.size = M.rd.pos], r |-> Ok(<<>>)]
    ELSE [M |-> [M EXCEPT !.rd.pos = M.rd.pos + Len(data)], r |-> Ok(data)]

\* DecompressReader._rewind()
DecompressReader_rewind(M) ==
    [M EXCEPT !.fppos = 0, !.rd.eof = FALSE, !.rd.pos = 0, !.dec = NewDecompressor]

(***************************************************************************)
(* io.BufferedReader over the raw reader (CPython's bufferedio.c), with    *)
(* buffer_size = io.DEFAULT_BUFFER_SIZE.  bufr.buf holds the valid bytes   *)
(* of the buffer, bufr.pos how many of them have been handed out.          *)
(***************************************************************************)
READAHEAD(b) == Len(b.buf) - b.pos
Buffered(b) == SubSeq(b.buf, b.pos + 1, Len(b.buf))
MINUS_LAST_BLOCK(size) == (size \div BUFFER_SIZE) * BUFFER_SIZE

\* _bufferedreader_read_generic: what to do next, given the call's locals c
BufferedReader_read_next(M, c) ==
    IF c.phase = "direct" /\ c.rem > 0 /\ MINUS_LAST_BLOCK(c.rem) > 0
    THEN Request(M, c, MINUS_LAST_BLOCK(c.rem))
    ELSE LET b == IF c.phase = "direct" THEN NewBuffer ELSE M.bufr
             M2 == [M EXCEPT !.bufr = b]
         IN  IF c.rem > 0 /\ Len(b.buf) < BUFFER_SIZE
             THEN Request(M2, [c EXCEPT !.phase = "fill"], BUFFER_SIZE - Len(b.buf))
             ELSE Finish(M2, Result("none", c.res, 0))

\* BufferedReader.read(n): the fast path, read_all or the generic path
BufferedReader_read(M, n) ==
    LET c == [M.call EXCEPT !.n = n] IN
    IF n >= 0 /\ n <= READAHEAD(M.bufr)
    THEN Finish([M EXCEPT !.bufr.pos = M.bufr.pos + n],
                Result("none", SubSeq(M.bufr.buf, M.bufr.pos + 1, M.bufr.pos + n), 0))
    ELSE IF n < 0
    THEN Request([M EXCEPT !.bufr = NewBuffer],
                 [c EXCEPT !.phase = "all", !.res = Buffered(M.bufr)], SYS_MAXSIZE)
    ELSE BufferedReader_read_next(
             [M EXCEPT !.bufr = NewBuffer],
             [c EXCEPT !.phase = "direct", !.res = Buffered(M.bufr),
                       !.rem = n - READAHEAD(M.bufr)])

\* BufferedReader.read(n) resumed with the bytes of a raw read
BufferedReader_read_resume(M, data) ==
    LET c == M.call IN
    IF data = <<>> THEN Finish(M, Result("none", c.res, 0))
    ELSE IF c.phase = "all"
    THEN Request(M, [c EXCEPT !.res = c.res \o data], SYS_MAXSIZE)
    ELSE IF c.phase = "direct"
    THEN BufferedReader_read_next(
             M, [c EXCEPT !.res = c.res \o data, !.rem = c.rem - Len(data)])
    ELSE LET take == Min(c.rem, Len(data))
             b    == [buf |-> M.bufr.buf \o data, pos |-> M.bufr.pos + take]
         IN  BufferedReader_read_next(
                 [M EXCEPT !.bufr = b],
                 [c EXCEPT !.res = c.res \o Take(data, take), !.rem = c.rem - take])

\* BufferedReader.read1(n)
BufferedReader_read1(M, n) ==
    LET size == IF n < 0 THEN BUFFER_SIZE ELSE n
        have == READAHEAD(M.bufr)
        take == Min(have, size)
    IN  IF size = 0 THEN Finish(M, Result("none", <<>>, 0))
        ELSE IF have > 0
        THEN Finish([M EXCEPT !.bufr.pos = M.bufr.pos + take],
                    Result("none", SubSeq(M.bufr.buf, M.bufr.pos + 1, M.bufr.pos + take), 0))
        ELSE Request([M EXCEPT !.bufr = NewBuffer], [M.call EXCEPT !.n = size], size)

BufferedReader_read1_resume(M, data) == Finish(M, Result("none", data, 0))

\* BufferedReader.peek(size): the buffered bytes, or one filling of the buffer
BufferedReader_peek(M) ==
    IF READAHEAD(M.bufr) > 0 THEN Finish(M, Result("none", Buffered(M.bufr), 0))
    ELSE Request([M EXCEPT !.bufr = NewBuffer], M.call, BUFFER_SIZE)

BufferedReader_peek_resume(M, data) ==
    Finish([M EXCEPT !.bufr = [buf |-> data, pos |-> 0]], Result("none", data, 0))

\* Index of the first newline among the first n bytes, 0 when there is none.
FindNewline(bytes, n) ==
    LET hits == {i \in 1..Min(n, Len(bytes)) : bytes[i] = NEWLINE}
    IN  IF hits = {} THEN 0 ELSE CHOOSE i \in hits : \A j \in hits : i <= j

\* BufferedReader.readline(limit) (_buffered_readline)
BufferedReader_readline(M, limit) ==
    LET have == READAHEAD(M.bufr)
        n    == IF limit >= 0 /\ have > limit THEN limit ELSE have
        rest == Buffered(M.bufr)
        i    == FindNewline(rest, n)
    IN  IF i > 0
        THEN Finish([M EXCEPT !.bufr.pos = M.bufr.pos + i], Result("none", Take(rest, i), 0))
        ELSE IF n = limit
        THEN Finish([M EXCEPT !.bufr.pos = M.bufr.pos + n], Result("none", Take(rest, n), 0))
        ELSE Request([M EXCEPT !.bufr = NewBuffer],
                     [M.call EXCEPT !.res = Take(rest, n),
                                    !.rem = IF limit >= 0 THEN limit - n ELSE limit],
                     BUFFER_SIZE)

BufferedReader_readline_resume(M, data) ==
    LET c     == M.call
        limit == c.rem
        n     == IF limit >= 0 /\ Len(data) > limit THEN limit ELSE Len(data)
        i     == FindNewline(data, n)
    IN  IF data = <<>> THEN Finish(M, Result("none", c.res, 0))
        ELSE IF i > 0
        THEN Finish([M EXCEPT !.bufr = [buf |-> data, pos |-> i]],
                    Result("none", c.res \o Take(data, i), 0))
        ELSE IF n = limit
        THEN Finish([M EXCEPT !.bufr = [buf |-> data, pos |-> n]],
                    Result("none", c.res \o Take(data, n), 0))
        ELSE Request([M EXCEPT !.bufr = NewBuffer],
                     [c EXCEPT !.res = c.res \o data,
                               !.rem = IF limit >= 0 THEN limit - n ELSE limit],
                     BUFFER_SIZE)

SEEK_SET == 0
SEEK_CUR == 1
SEEK_END == 2

\* DecompressReader.seek, from `if offset < self._pos` on; c.rem is the offset
DecompressReader_seek_skip(M, offset) ==
    LET M2  == IF offset < M.rd.pos
               THEN [DecompressReader_rewind(M) EXCEPT !.call.rewound = TRUE]
               ELSE M
        off == IF offset < M.rd.pos THEN offset ELSE offset - M.rd.pos
    IN  IF off > 0
        THEN Request(M2, [M2.call EXCEPT !.phase = "skip", !.rem = off], Min(BUFFER_SIZE, off))
        ELSE Finish([M2 EXCEPT !.bufr = NewBuffer], Result("none", <<>>, M2.rd.pos))

\* BufferedReader.seek(target, whence), then DecompressReader.seek
BufferedReader_seek(M, target, whence) ==
    LET avail   == READAHEAD(M.bufr)
        current == M.rd.pos
        offset  == IF whence = SEEK_SET THEN target - (current - avail) ELSE target
        M1      == [M EXCEPT !.hist.linear = FALSE, !.out = <<>>]
    IN  IF whence \in {SEEK_SET, SEEK_CUR} /\ avail > 0
           /\ offset >= 0 - M.bufr.pos /\ offset <= avail
        THEN Finish([M1 EXCEPT !.bufr.pos = M.bufr.pos + offset],
                    Result("none", <<>>, current - avail + offset))
        ELSE IF whence = SEEK_SET THEN DecompressReader_seek_skip(M1, target)
        ELSE IF whence = SEEK_CUR
        THEN DecompressReader_seek_skip(M1, M.rd.pos + (target - avail))
        ELSE IF M.rd.size < 0
        THEN Request(M1, [M.call EXCEPT !.phase = "size", !.n = target], BUFFER_SIZE)
        ELSE DecompressReader_seek_skip(M1, M.rd.size + target)

BufferedReader_seek_resume(M, data) ==
    LET c == M.call IN
    IF c.phase = "size"
    THEN IF data = <<>> THEN DecompressReader_seek_skip(M, M.rd.size + c.n)
         ELSE Request(M, c, BUFFER_SIZE)
    ELSE IF data = <<>> \/ c.rem - Len(data) <= 0
    THEN Finish([M EXCEPT !.bufr = NewBuffer], Result("none", <<>>, M.rd.pos))
    ELSE Request(M, [c EXCEPT !.rem = c.rem - Len(data)],
                 Min(BUFFER_SIZE, c.rem - Len(data)))

\* The call in progress continues with the outcome r of raw.readinto().
Resume(M, r) ==
    IF r.exc # "none" THEN Finish(M, Result(r.exc, <<>>, 0))
    ELSE IF M.call.op = "read" THEN BufferedReader_read_resume(M, r.ret)
    ELSE IF M.call.op = "read1" THEN BufferedReader_read1_resume(M, r.ret)
    ELSE IF M.call.op = "peek" THEN BufferedReader_peek_resume(M, r.ret)
    ELSE IF M.call.op = "readline" THEN BufferedReader_readline_resume(M, r.ret)
    ELSE BufferedReader_seek_resume(M, r.ret)

(***************************************************************************)
(* ZstdFile.                                                               *)
(***************************************************************************)
\* Faulty variant of closed: the flag io.IOBase keeps, which ZstdFile.close
\* never sets.
ZstdFile_closed_inherited(m) == FALSE

\* the property ZstdFile.closed
ZstdFile_closed(m) == m = MODE_CLOSED

\* _compression.BaseStream._check_not_closed
BaseStream_check_not_closed(m) == IF ZstdFile_closed(m) THEN "ValueError" ELSE "none"

\* _compression.BaseStream._check_can_read, through ZstdFile.readable
BaseStream_check_can_read(m) ==
    IF BaseStream_check_not_closed(m) # "none" THEN BaseStream_check_not_closed(m)
    ELSE IF m # MODE_READ THEN "UnsupportedOperation" ELSE "none"

\* _compression.BaseStream._check_can_write, through ZstdFile.writable
BaseStream_check_can_write(m) ==
    IF BaseStream_check_not_closed(m) # "none" THEN BaseStream_check_not_closed(m)
    ELSE IF m # MODE_WRITE THEN "UnsupportedOperation" ELSE "none"

\* _compression.BaseStream._check_can_seek, through readable and seekable
BaseStream_check_can_seek(m) == BaseStream_check_can_read(m)

BeginWith(op, arg, whence) ==
    [CurM EXCEPT !.call = [NoCall EXCEPT !.op = op, !.arg = arg, !.whence = whence]]

Begin(op) == BeginWith(op, 0, 0)

readSideUnchanged == UNCHANGED <<copy, mode, closefp, fpdata, fpcloses, comp, wpos,
                                 flushes, written, shot>>

\* A call that only inspects the file: it returns v or raises e.
Answer(op, e, v) ==
    /\ pc = "idle"
    /\ SetM(Finish(Begin(op), Result(e, <<>>, IF e = "none" THEN v ELSE 0)))
    /\ readSideUnchanged

Bool(b) == IF b THEN 1 ELSE 0

\* reading the property ZstdFile.closed
ZstdFile_get_closed == Answer("closed", "none", Bool(ZstdFile_closed(mode)))

ZstdFile_fileno == Answer("fileno", BaseStream_check_not_closed(mode), 0)

ZstdFile_readable ==
    Answer("readable", BaseStream_check_not_closed(mode), Bool(mode = MODE_READ))

ZstdFile_writable ==
    Answer("writable", BaseStream_check_not_closed(mode), Bool(mode = MODE_WRITE))

ZstdFile_seekable ==
    Answer("seekable", BaseStream_check_not_closed(mode), Bool(mode = MODE_READ))

ZstdFile_tell ==
    Answer("tell", BaseStream_check_not_closed(mode),
           IF mode = MODE_READ THEN rd.pos - READAHEAD(bufr) ELSE wpos)

\* sizes a caller passes to read, read1 and readline
Sizes == (-1)..(BUFFER_SIZE + 1)

ZstdFile_read ==
    /\ pc = "idle"
    /\ \E n \in Sizes :
          LET e == BaseStream_check_can_read(mode) IN
          SetM(IF e # "none" THEN Finish(BeginWith("read", n, 0), Result(e, <<>>, 0))
               ELSE BufferedReader_read(BeginWith("read", n, 0), n))
    /\ readSideUnchanged

ZstdFile_read1 ==
    /\ pc = "idle"
    /\ \E n \in Sizes :
          LET e == BaseStream_check_can_read(mode) IN
          SetM(IF e # "none" THEN Finish(BeginWith("read1", n, 0), Result(e, <<>>, 0))
               ELSE BufferedReader_read1(BeginWith("read1", n, 0), n))
    /\ readSideUnchanged

ZstdFile_readline ==
    /\ pc = "idle"
    /\ \E n \in Sizes :
          LET e == BaseStream_check_can_read(mode) IN
          SetM(IF e # "none" THEN Finish(BeginWith("readline", n, 0), Result(e, <<>>, 0))
               ELSE BufferedReader_readline(BeginWith("readline", n, 0), n))
    /\ readSideUnchanged

ZstdFile_peek ==
    /\ pc = "idle"
    /\ LET e == BaseStream_check_can_read(mode) IN
       SetM(IF e # "none" THEN Finish(Begin("peek"), Result(e, <<>>, 0))
            ELSE BufferedReader_peek(Begin("peek")))
    /\ readSideUnchanged

\* offsets a caller passes to seek
Offsets == (-1)..(MaxLen + 1)

ZstdFile_seek ==
    /\ pc = "idle"
    /\ \E target \in Offsets, whence \in {SEEK_SET, SEEK_CUR, SEEK_END} :
          LET e == BaseStream_check_can_seek(mode) IN
          SetM(IF e # "none"
               THEN Finish(BeginWith("seek", target, whence), Result(e, <<>>, 0))
               ELSE BufferedReader_seek(BeginWith("seek", target, whence), target, whence))
    /\ readSideUnchanged

\* The raw reader runs for the call in progress: EndlessDecompressReader.read
\* makes one pass of its loop, and returns to the call when the loop ends.
EndlessDecompressReader_read ==
    /\ pc = "raw"
    /\ \E k \in 1..BUFFER_SIZE :
          LET size == call.want
              p    == EndlessDecompressReader_read_loop(CurM, fpdata, size, k)
              e    == IF copy = "current"
                      THEN EndlessDecompressReader_read_end(p.M, p.data)
                      ELSE EndlessDecompressReader_read_end_old(p.M, p.data)
          IN  SetM(IF size = 0 \/ rd.eof THEN Resume(CurM, Ok(<<>>))
                   ELSE IF p.go = "again" THEN p.M
                   ELSE IF p.go = "raise" THEN Resume(p.M, Raise("ZstdError"))
                   ELSE Resume(e.M, e.r))
    /\ readSideUnchanged

\* what a caller passes to write: byte strings, and an object that is none
NotBytes == <<0>>

\* write(): compressed = self._compressor.compress(data)
ZstdFile_write_compress(c, data) == ZstdCompressor_compress(c, data, CONTINUE)

\* Faulty variant of the write to the file: the compressed bytes are dropped.
ZstdFile_write_fp_dropped(fp, compressed) == fp

\* write(): self._fp.write(compressed)
ZstdFile_write_fp(fp, compressed) == fp \o compressed

\* Faulty variant of the position update: it counts compressed bytes.
ZstdFile_write_pos_compressed(pos, data, compressed) == pos + Len(compressed)

\* write(): self._pos += len(data)
ZstdFile_write_pos(pos, data, compressed) == pos + Len(data)

\* write(): return len(data)
ZstdFile_write_return(data, compressed) == Len(data)

ZstdFile_write ==
    /\ pc = "idle"
    /\ mode = MODE_WRITE => hist.writes < MaxWrites
    /\ \E data \in Datas \cup {NotBytes}, sinkok \in BOOLEAN :
          LET e == BaseStream_check_can_write(mode)
              r == ZstdFile_write_compress(comp, data)
              h == [hist EXCEPT !.writes = hist.writes + 1]
              M == IF e = "none" THEN [Begin("write") EXCEPT !.hist = h]
                   ELSE Begin("write")
          IN  IF e # "none"
              THEN /\ SetM(Finish(M, Result(e, <<>>, 0)))
                   /\ UNCHANGED <<comp, fpdata, wpos, written>>
              ELSE IF data = NotBytes
              THEN /\ SetM(Finish(M, Result("TypeError", <<>>, 0)))
                   /\ UNCHANGED <<comp, fpdata, wpos, written>>
              ELSE IF Len(written) + Len(data) > MaxTotal
              THEN FALSE
              ELSE IF ~sinkok
              THEN /\ SetM(Finish([M EXCEPT !.hist.sinkerr = TRUE],
                                  Result("OSError", <<>>, 0)))
                   /\ comp' = r.c
                   /\ UNCHANGED <<fpdata, wpos, written>>
              ELSE /\ SetM(Finish(M, Result("none", <<>>, ZstdFile_write_return(data, r.out))))
                   /\ comp' = r.c
                   /\ fpdata' = ZstdFile_write_fp(fpdata, r.out)
                   /\ wpos' = ZstdFile_write_pos(wpos, data, r.out)
                   /\ written' = written \o data
    /\ UNCHANGED <<copy, mode, closefp, fpcloses, flushes, shot>>

\* Faulty variant of the flush in close(): the frame is not ended.
ZstdFile_close_noflush(c) == [c |-> c, out |-> <<>>]

\* close(): self._compressor.flush(), whose bytes go to the file
ZstdFile_close_flush(c) == ZstdCompressor_flush(c)

\* Faulty variant of the `finally` clause: the mode is left as it was.
ZstdFile_close_keeps_mode(m) == m

\* close(): the mode the `finally` clause leaves the file in
ZstdFile_close_finally(m) == MODE_CLOSED

ZstdFile_close ==
    /\ pc = "idle"
    /\ hist.closes < MaxCloses
    /\ \E sinkok \in BOOLEAN :
          LET M == [Begin("close") EXCEPT !.hist.closes = hist.closes + 1]
              r == ZstdFile_close_flush(comp)
              finally == /\ fpcloses' = IF closefp THEN fpcloses + 1 ELSE fpcloses
                         /\ closefp' = FALSE
                         /\ mode' = ZstdFile_close_finally(mode)
          IN  IF mode = MODE_CLOSED
              THEN /\ SetM(Finish(M, Result("none", <<>>, 0)))
                   /\ UNCHANGED <<mode, closefp, fpdata, fpcloses, comp, flushes>>
              ELSE IF mode = MODE_READ
              THEN /\ SetM(Finish([M EXCEPT !.bufr = NewBuffer, !.dec = NewDecompressor,
                                            !.rd = NewReader, !.out = <<>>],
                                  Result("none", <<>>, 0)))
                   /\ finally
                   /\ UNCHANGED <<fpdata, comp, flushes>>
              ELSE /\ flushes' = flushes + 1
                   /\ finally
                   /\ IF sinkok
                      THEN /\ SetM(Finish(M, Result("none", <<>>, 0)))
                           /\ fpdata' = fpdata \o r.out
                           /\ comp' = NewCompressor(1)
                      ELSE /\ SetM(Finish([M EXCEPT !.hist.sinkerr = TRUE],
                                          Result("OSError", <<>>, 0)))
                           /\ comp' = r.c
                           /\ UNCHANGED fpdata
    /\ UNCHANGED <<copy, wpos, written, shot>>

\* The caller takes the outcome of the call.
Return ==
    /\ pc = "returned"
    /\ pc' = "idle"
    /\ last' = NoLast
    /\ UNCHANGED <<copy, mode, closefp, fpdata, fppos, fpcloses, comp, wpos, flushes,
                   dec, rd, bufr, call, out, written, hist, shot>>

\* ZstdFile(sink, "r") on the file a closed write-mode session has written
ZstdFile_init_readback ==
    /\ pc = "idle"
    /\ mode = MODE_CLOSED
    /\ hist.opened = "write"
    /\ mode' = MODE_READ
    /\ fppos' = 0
    /\ dec' = NewDecompressor
    /\ rd' = NewReader
    /\ bufr' = NewBuffer
    /\ out' = <<>>
    /\ hist' = [NoHist EXCEPT !.opened = "readback", !.sinkerr = hist.sinkerr]
    /\ UNCHANGED <<copy, closefp, fpdata, fpcloses, comp, wpos, flushes, pc, call,
                   last, written, shot>>

(***************************************************************************)
(* The sources of a read-mode session: one frame, or two frames back to    *)
(* back, whole, cut short, or followed by a token that is no frame.        *)
(***************************************************************************)
Junk == [k |-> "junk", last |-> FALSE, n |-> 0]

\* a frame as a compressor session produces it
FrameOf(data, level, directive) ==
    LET a == ZstdCompressor_compress(NewCompressor(level), data, directive)
    IN  a.out \o ZstdCompressor_flush(a.c).out

Frames == {FrameOf(d, l, m) : d \in Datas, l \in Levels, m \in {CONTINUE, FLUSH_BLOCK}}

SecondFrames == {compress(d, 1, FALSE) : d \in SeqsUpTo(Byte, 1)}

Streams == {f \o g : f \in Frames, g \in SecondFrames}

Prefixes(S) == UNION {{Take(s, k) : k \in 0..Len(s)} : s \in S}

\* the sources of the sessions that only read forward
Sources == Prefixes(Streams) \cup {s \o <<Junk>> : s \in Prefixes(Frames)}

\* sample contents: bytes that differ, bytes that repeat
Mixed == [i \in 1..MaxLen |-> IF i % 2 = 1 THEN 1 ELSE NEWLINE]
Repeated == [i \in 1..MaxLen |-> NEWLINE]

\* the sources of the sessions that use the whole interface
FewSources ==
    LET s == FrameOf(Mixed, 1, FLUSH_BLOCK) \o compress(<<NEWLINE>>, 1, FALSE)
        t == FrameOf(Repeated, MaxLen, CONTINUE)
    IN  Prefixes({s, t}) \cup {s \o <<Junk>>}

InitSession(c, sources, modes) ==
    /\ copy = c
    /\ shot = NoShot
    /\ closefp = FALSE
    /\ fppos = 0
    /\ fpcloses = 0
    /\ wpos = 0
    /\ flushes = 0
    /\ dec = NewDecompressor
    /\ rd = NewReader
    /\ bufr = NewBuffer
    /\ pc = "idle"
    /\ call = NoCall
    /\ last = NoLast
    /\ out = <<>>
    /\ written = <<>>
    /\ mode \in modes
    /\ IF mode = MODE_READ
       THEN /\ fpdata \in sources
            /\ comp = NewCompressor(1)
            /\ hist = [NoHist EXCEPT !.opened = "read"]
       ELSE /\ fpdata = <<>>
            /\ \E level \in Levels : comp = NewCompressor(level)
            /\ hist = [NoHist EXCEPT !.opened = "write"]

(***************************************************************************)
(* Construction: ZstdFile.__init__ and zstd_open.  A mode string is the    *)
(* sequence of its characters.  The arguments are given by their kind.     *)
(***************************************************************************)
ModeStrings ==
    {<<"r">>, <<"r", "b">>, <<"w">>, <<"w", "b">>, <<"a">>, <<"a", "b">>,
     <<"x">>, <<"x", "b">>, <<"r", "t">>, <<"w", "t">>, <<"a", "t">>, <<"x", "t">>,
     <<"r", "b", "t">>, <<"w", "t", "b">>, <<"r", "+">>, <<"t">>, <<>>}

\* filename: a path, an object with read or write, or something else
Filenames == {"path", "file", "other"}

\* level_or_option: None, an int, a dict, a dict with a parameter out of
\* its bounds, or a value of another type
LevelOrOptions == {"None", "int", "dict", "dict_out_of_bounds", "str"}

\* zstd_dict: None, a ZstdDict, or a value of another type
ZstdDicts == {"None", "ZstdDict", "bytes"}

Chars(str) == {str[i] : i \in 1..Len(str)}

NotT(c) == c # "t"

\* ZstdCompressor(level_or_option, zstd_dict) and ZstdDecompressor(zstd_dict,
\* option) (native): a parameter out of its bounds is refused at construction
Zstd_new(level_or_option) ==
    IF level_or_option = "dict_out_of_bounds" THEN "ZstdError" ELSE "none"

\* Faulty variant of the test of zstd_dict: any value passes.
ZstdFile_init_any_dict(zstd_dict) == "none"

\* __init__: the test of zstd_dict
ZstdFile_init_check_dict(zstd_dict) ==
    IF zstd_dict \notin {"None", "ZstdDict"} THEN "ValueError" ELSE "none"

\* Faulty variant of the dispatch on the mode string: append opens for reading.
ZstdFile_init_mode_code_append(mode_str) ==
    IF mode_str \in {<<"r">>, <<"r", "b">>, <<"a">>, <<"a", "b">>} THEN MODE_READ
    ELSE IF mode_str \in {<<"w">>, <<"w", "b">>, <<"x">>, <<"x", "b">>}
    THEN MODE_WRITE
    ELSE MODE_CLOSED

\* __init__: mode_code, with MODE_CLOSED standing for "Invalid mode"
ZstdFile_init_mode_code(mode_str) ==
    IF mode_str \in {<<"r">>, <<"r", "b">>} THEN MODE_READ
    ELSE IF mode_str \in {<<"w">>, <<"w", "b">>, <<"a">>, <<"a", "b">>, <<"x">>, <<"x", "b">>}
    THEN MODE_WRITE
    ELSE MODE_CLOSED

\* __init__: the test of level_or_option for the mode
ZstdFile_init_check_level(mode_code, level_or_option) ==
    IF mode_code = MODE_READ
    THEN (IF level_or_option \in {"None", "dict", "dict_out_of_bounds"}
          THEN "none" ELSE "ValueError")
    ELSE (IF level_or_option \in {"None", "int", "dict", "dict_out_of_bounds"}
          THEN "none" ELSE "ValueError")

\* __init__: [exc, mode |-> self._mode, closefp |-> self._closefp, ok |-> the
\* object exists, opened |-> builtins.open has opened the file]
ZstdFile_init_outcome(filename, mode_str, level_or_option, zstd_dict) ==
    LET mode_code == ZstdFile_init_mode_code(mode_str)
        fail(e, m) == [exc |-> e, mode |-> m, closefp |-> FALSE, ok |-> FALSE,
                       opened |-> FALSE]
    IN  IF ZstdFile_init_check_dict(zstd_dict) # "none"
        THEN fail(ZstdFile_init_check_dict(zstd_dict), MODE_CLOSED)
        ELSE IF mode_code = MODE_CLOSED THEN fail("ValueError", MODE_CLOSED)
        ELSE IF ZstdFile_init_check_level(mode_code, level_or_option) # "none"
        THEN fail("ValueError", MODE_CLOSED)
        ELSE IF mode_code = MODE_WRITE /\ Zstd_new(level_or_option) # "none"
        THEN fail(Zstd_new(level_or_option), MODE_CLOSED)
        ELSE IF filename = "path" THEN fail("NameError", MODE_CLOSED)
        ELSE IF filename # "file" THEN fail("TypeError", MODE_CLOSED)
        ELSE IF mode_code = MODE_READ /\ Zstd_new(level_or_option) # "none"
        THEN fail(Zstd_new(level_or_option), mode_code)
        ELSE [exc |-> "none", mode |-> mode_code, closefp |-> FALSE, ok |-> TRUE,
              opened |-> FALSE]

\* The state a construction with outcome o leaves, for the call M.
Constructs(M, o, wrapper) ==
    /\ SetM(Finish([M EXCEPT !.hist.opened = IF ~o.ok THEN "failed"
                                            ELSE IF o.mode = MODE_READ THEN "read"
                                            ELSE "write"],
                   Result(o.exc, IF o.ok THEN <<wrapper>> ELSE <<>>, 0)))
    /\ mode' = o.mode
    /\ closefp' = o.closefp
    /\ IF o.ok /\ o.mode = MODE_WRITE
       THEN \E level \in Levels : comp' = NewCompressor(level)
       ELSE comp' = comp
    /\ UNCHANGED <<copy, fpdata, fpcloses, wpos, flushes, written, shot>>

Args(filename, mode_str, level_or_option, zstd_dict) ==
    [filename |-> filename, mode |-> mode_str, level_or_option |-> level_or_option,
     zstd_dict |-> zstd_dict]

\* ZstdFile(filename, mode, level_or_option=..., zstd_dict=...)
ZstdFile_init ==
    /\ pc = "idle"
    /\ hist.opened = "none"
    /\ \E filename \in Filenames, mode_str \in ModeStrings,
          level_or_option \in LevelOrOptions, zstd_dict \in ZstdDicts :
          Constructs(BeginWith("init",
                               Args(filename, mode_str, level_or_option, zstd_dict), 0),
                     ZstdFile_init_outcome(filename, mode_str, level_or_option, zstd_dict),
                     "ZstdFile")

\* Faulty variant of zstd_mode: the mode is passed on as it is.
zstd_open_zstd_mode_kept(mode_str) == mode_str

\* zstd_open: zstd_mode = mode.replace("t", "")
zstd_open_zstd_mode(mode_str) == SelectSeq(mode_str, NotT)

\* zstd_open(filename, mode, level_or_option=..., zstd_dict=...)
zstd_open ==
    /\ pc = "idle"
    /\ hist.opened = "none"
    /\ \E filename \in Filenames, mode_str \in ModeStrings,
          level_or_option \in LevelOrOptions, zstd_dict \in ZstdDicts :
          LET M == BeginWith("zstd_open",
                             Args(filename, mode_str, level_or_option, zstd_dict), 0)
          IN  IF "t" \in Chars(mode_str) /\ "b" \in Chars(mode_str)
              THEN /\ SetM(Finish(M, Result("ValueError", <<>>, 0)))
                   /\ UNCHANGED <<copy, mode, closefp, fpdata, fpcloses, comp, wpos,
                                  flushes, written, shot>>
              ELSE Constructs(M,
                              ZstdFile_init_outcome(filename, zstd_open_zstd_mode(mode_str),
                                                    level_or_option, zstd_dict),
                              IF "t" \in Chars(mode_str) THEN "TextIOWrapper"
                              ELSE "ZstdFile")

(***************************************************************************)
(* Spec: a session of the current copy using the whole interface.          *)
(***************************************************************************)
Init == InitSession("current", FewSources, {MODE_READ, MODE_WRITE})

Next ==
    \/ ZstdFile_close
    \/ ZstdFile_get_closed
    \/ ZstdFile_fileno
    \/ ZstdFile_seekable
    \/ ZstdFile_readable
    \/ ZstdFile_writable
    \/ ZstdFile_peek
    \/ ZstdFile_read
    \/ ZstdFile_read1
    \/ ZstdFile_readline
    \/ ZstdFile_write
    \/ ZstdFile_seek
    \/ ZstdFile_tell
    \/ EndlessDecompressReader_read
    \/ Return

Spec == Init /\ [][Next]_vars

(***************************************************************************)
(* SpecStream: read-mode sessions that read forward, over every source;    *)
(* SpecStreamOld: the same sessions with the old copy of the module.       *)
(***************************************************************************)
InitStream == InitSession("current", Sources, {MODE_READ})

InitStreamOld == InitSession("old", Sources, {MODE_READ})

NextStream ==
    \/ ZstdFile_read
    \/ EndlessDecompressReader_read
    \/ ZstdFile_close
    \/ Return

SpecStream == InitStream /\ [][NextStream]_vars

SpecStreamOld == InitStreamOld /\ [][NextStream]_vars

(***************************************************************************)
(* SpecOpen: a file is constructed, by ZstdFile or by zstd_open, and then  *)
(* used through the whole interface, in either copy of the module.         *)
(***************************************************************************)
\* what the underlying file holds before the construction
OpenSources ==
    LET s == FrameOf(Mixed, 1, FLUSH_BLOCK) IN {<<>>, s, Take(s, Len(s) - 1)}

InitOpen ==
    /\ copy \in {"current", "old"}
    /\ shot = NoShot
    /\ fpdata \in OpenSources
    /\ mode = MODE_CLOSED
    /\ closefp = FALSE
    /\ fppos = 0
    /\ fpcloses = 0
    /\ comp = NewCompressor(1)
    /\ wpos = 0
    /\ flushes = 0
    /\ dec = NewDecompressor
    /\ rd = NewReader
    /\ bufr = NewBuffer
    /\ pc = "idle"
    /\ call = NoCall
    /\ last = NoLast
    /\ out = <<>>
    /\ written = <<>>
    /\ hist = NoHist

\* a construction has returned the file to the caller
Constructed == hist.opened \in {"read", "write"}

NextOpen ==
    \/ ZstdFile_init
    \/ zstd_open
    \/ Constructed /\ ZstdFile_close
    \/ Constructed /\ ZstdFile_get_closed
    \/ Constructed /\ ZstdFile_fileno
    \/ Constructed /\ ZstdFile_seekable
    \/ Constructed /\ ZstdFile_readable
    \/ Constructed /\ ZstdFile_writable
    \/ Constructed /\ ZstdFile_peek
    \/ Constructed /\ ZstdFile_read
    \/ Constructed /\ ZstdFile_read1
    \/ Constructed /\ ZstdFile_readline
    \/ Constructed /\ ZstdFile_write
    \/ Constructed /\ ZstdFile_seek
    \/ Constructed /\ ZstdFile_tell
    \/ EndlessDecompressReader_read
    \/ Return

SpecOpen == InitOpen /\ [][NextOpen]_vars

(***************************************************************************)
(* SpecThreads: two threads call write() on one write-mode ZstdFile.  The  *)
(* interpreter may switch threads between the statements of write(), and   *)
(* between the load and the store of `self._pos += len(data)`.  shot holds *)
(* each thread's place in write() and its local variables.                 *)
(***************************************************************************)
Threads == {1, 2}

NoThread == [pc |-> "idle", data |-> <<>>, compressed |-> <<>>, pos |-> 0, exc |-> "none",
             ret |-> 0]

InitThreads ==
    /\ copy = "current"
    /\ mode = MODE_WRITE
    /\ hist = [NoHist EXCEPT !.opened = "write"]
    /\ \E level \in Levels : comp = NewCompressor(level)
    /\ shot = [stage |-> "threads", t |-> [i \in Threads |-> NoThread],
               order |-> <<>>, overlap |-> FALSE]
    /\ closefp = FALSE
    /\ fpdata = <<>>
    /\ fppos = 0
    /\ fpcloses = 0
    /\ wpos = 0
    /\ flushes = 0
    /\ dec = NewDecompressor
    /\ rd = NewReader
    /\ bufr = NewBuffer
    /\ pc = "idle"
    /\ call = NoCall
    /\ last = NoLast
    /\ out = <<>>
    /\ written = <<>>

threadUnchanged == UNCHANGED <<copy, mode, closefp, fppos, fpcloses, flushes, dec, rd,
                               bufr, pc, call, last, out, written, hist>>

\* a thread enters write(data): self._check_can_write()
Thread_write_call ==
    /\ \E i \in Threads, data \in Datas \ {<<>>} :
          /\ shot.t[i].pc = "idle"
          /\ BaseStream_check_can_write(mode) = "none"
          /\ shot' = [shot EXCEPT
                        !.t[i].pc = "compress",
                        !.t[i].data = data,
                        !.overlap = (shot.overlap
                                     \/ \E j \in Threads :
                                           shot.t[j].pc \notin {"idle", "done"})]
    /\ UNCHANGED <<comp, fpdata, wpos>>
    /\ threadUnchanged

\* compressed = self._compressor.compress(data)
Thread_write_compress ==
    /\ \E i \in Threads :
          /\ shot.t[i].pc = "compress"
          /\ LET r == ZstdFile_write_compress(comp, shot.t[i].data) IN
             /\ comp' = r.c
             /\ shot' = [shot EXCEPT !.t[i].pc = "fp", !.t[i].compressed = r.out,
                                     !.order = shot.order \o shot.t[i].data]
    /\ UNCHANGED <<fpdata, wpos>>
    /\ threadUnchanged

\* self._fp.write(compressed)
Thread_write_fp ==
    /\ \E i \in Threads :
          /\ shot.t[i].pc = "fp"
          /\ fpdata' = ZstdFile_write_fp(fpdata, shot.t[i].compressed)
          /\ shot' = [shot EXCEPT !.t[i].pc = "load"]
    /\ UNCHANGED <<comp, wpos>>
    /\ threadUnchanged

\* self._pos += len(data): the load of self._pos
Thread_write_load ==
    /\ \E i \in Threads :
          /\ shot.t[i].pc = "load"
          /\ shot' = [shot EXCEPT !.t[i].pc = "store", !.t[i].pos = wpos]
    /\ UNCHANGED <<comp, fpdata, wpos>>
    /\ threadUnchanged

\* self._pos += len(data): the store; return len(data)
Thread_write_store ==
    /\ \E i \in Threads :
          /\ shot.t[i].pc = "store"
          /\ wpos' = ZstdFile_write_pos(shot.t[i].pos, shot.t[i].data,
                                        shot.t[i].compressed)
          /\ shot' = [shot EXCEPT
                        !.t[i].pc = "done",
                        !.t[i].ret = ZstdFile_write_return(shot.t[i].data,
                                                           shot.t[i].compressed)]
    /\ UNCHANGED <<comp, fpdata>>
    /\ threadUnchanged

NextThreads ==
    \/ Thread_write_call
    \/ Thread_write_compress
    \/ Thread_write_fp
    \/ Thread_write_load
    \/ Thread_write_store

SpecThreads == InitThreads /\ [][NextThreads]_vars

(***************************************************************************)
(* SpecRaw: the raw reader on its own.  A caller calls                     *)
(* EndlessDecompressReader.read(size) with size >= 0 and rewinds it, over  *)
(* every source and with both copies of the module.  shot holds the call   *)
(* in progress and what the caller has seen: the bytes returned since      *)
(* construction or the last rewind, and the last call's outcome.           *)
(***************************************************************************)
RawSizes == 0..MaxLen

NoRaw == [stage |-> "raw", pc |-> "idle", size |-> 0, ret |-> <<>>, exc |-> "none",
          outall |-> <<>>, from |-> 0, eofbefore |-> FALSE, passes |-> 0,
          done |-> FALSE]

InitRaw ==
    /\ copy \in {"current", "old"}
    /\ mode = MODE_READ
    /\ fpdata \in Sources
    /\ shot = NoRaw
    /\ hist = [NoHist EXCEPT !.opened = "read"]
    /\ comp = NewCompressor(1)
    /\ closefp = FALSE
    /\ fppos = 0
    /\ fpcloses = 0
    /\ wpos = 0
    /\ flushes = 0
    /\ dec = NewDecompressor
    /\ rd = NewReader
    /\ bufr = NewBuffer
    /\ pc = "idle"
    /\ call = NoCall
    /\ last = NoLast
    /\ out = <<>>
    /\ written = <<>>

rawUnchanged == UNCHANGED <<copy, mode, closefp, fpdata, fpcloses, comp, wpos, flushes,
                            written>>

\* read(size) is called: `if not size or self._eof: return b""`, else the
\* loop is entered
Raw_read_call ==
    /\ shot.pc = "idle"
    /\ \E size \in RawSizes :
          LET c == [shot EXCEPT !.size = size, !.ret = <<>>, !.exc = "none",
                                !.from = fppos, !.eofbefore = rd.eof, !.passes = 0]
          IN  shot' = IF size = 0 \/ rd.eof
                      THEN [c EXCEPT !.done = TRUE]
                      ELSE [c EXCEPT !.pc = "loop", !.done = FALSE]
    /\ SetM(CurM)
    /\ rawUnchanged

\* one pass of the loop of read(size); when the loop ends, the end of read()
Raw_read_loop ==
    /\ shot.pc = "loop"
    /\ \E k \in 1..BUFFER_SIZE :
          \E p \in {EndlessDecompressReader_read_loop(CurM, fpdata, shot.size, k)} :
          \E e \in {IF copy = "current"
                    THEN EndlessDecompressReader_read_end(p.M, p.data)
                    ELSE EndlessDecompressReader_read_end_old(p.M, p.data)} :
          LET n == IF p.M.fppos # fppos \/ p.M.dec # dec
                   THEN shot.passes + 1 ELSE shot.passes
          IN  IF p.go = "again"
              THEN /\ SetM(p.M)
                   /\ shot' = [shot EXCEPT !.passes = n]
              ELSE IF p.go = "raise"
              THEN /\ SetM(p.M)
                   /\ shot' = [shot EXCEPT !.pc = "idle", !.done = TRUE, !.passes = n,
                                           !.exc = "ZstdError"]
              ELSE /\ SetM(e.M)
                   /\ shot' = [shot EXCEPT !.pc = "idle", !.done = TRUE, !.passes = n,
                                           !.exc = e.r.exc, !.ret = e.r.ret,
                                           !.outall = shot.outall \o e.r.ret]
    /\ rawUnchanged

\* _rewind(): the source is sought to 0 and a new decompressor is made
Raw_rewind ==
    /\ shot.pc = "idle"
    /\ SetM(DecompressReader_rewind(CurM))
    /\ shot' = NoRaw
    /\ rawUnchanged

NextRaw ==
    \/ Raw_read_call
    \/ Raw_read_loop
    \/ Raw_rewind

SpecRaw == InitRaw /\ [][NextRaw]_vars

\* SpecRawLive: the reader is first constructed over a source; a call of
\* read() that is in its loop keeps running; when the caller calls or
\* rewinds is up to the caller.
InitRawLive ==
    /\ copy \in {"current", "old"}
    /\ mode = MODE_READ
    /\ fpdata = <<>>
    /\ shot = [NoRaw EXCEPT !.stage = "new"]
    /\ hist = [NoHist EXCEPT !.opened = "read"]
    /\ comp = NewCompressor(1)
    /\ closefp = FALSE
    /\ fppos = 0
    /\ fpcloses = 0
    /\ wpos = 0
    /\ flushes = 0
    /\ dec = NewDecompressor
    /\ rd = NewReader
    /\ bufr = NewBuffer
    /\ pc = "idle"
    /\ call = NoCall
    /\ last = NoLast
    /\ out = <<>>
    /\ written = <<>>

\* EndlessDecompressReader(fp, ZstdDecompressor, ...) over a source
Raw_new ==
    /\ shot.stage = "new"
    /\ fpdata' \in Sources
    /\ shot' = NoRaw
    /\ SetM(CurM)
    /\ UNCHANGED <<copy, mode, closefp, fpcloses, comp, wpos, flushes, written>>

NextRawLive ==
    \/ Raw_new
    \/ shot.stage = "raw" /\ Raw_read_call
    \/ shot.stage = "raw" /\ Raw_read_loop
    \/ shot.stage = "raw" /\ Raw_rewind

SpecRawLive == InitRawLive /\ [][NextRawLive]_vars /\ WF_vars(Raw_read_loop)

(***************************************************************************)
(* SpecWrite: write-mode sessions, and reading back what they wrote.       *)
(***************************************************************************)
InitWrite == InitSession("current", {}, {MODE_WRITE})

NextWrite ==
    \/ ZstdFile_write
    \/ ZstdFile_tell
    \/ ZstdFile_close
    \/ ZstdFile_init_readback
    \/ ZstdFile_read
    \/ EndlessDecompressReader_read
    \/ Return

SpecWrite == InitWrite /\ [][NextWrite]_vars


(***************************************************************************)
(* Properties of the sessions.                                             *)
(***************************************************************************)
IsPrefix(s, t) == Len(s) <= Len(t) /\ s = Take(t, Len(s))

\* what a receiver decodes from the bytes it has
Decoded(data) == ZstdDecompressor_decompress(NewDecompressor, data, -1).out

\* index of the magic token that starts the second frame of a stream
NextMagic(s) ==
    LET I == {i \in 2..Len(s) : s[i].k = "magic"}
    IN  IF I = {} THEN Len(s) + 1 ELSE CHOOSE i \in I : \A j \in I : i <= j

\* a stream cut before every magic token
RECURSIVE FrameList(_)
FrameList(s) ==
    IF s = <<>> THEN <<>>
    ELSE <<Take(s, NextMagic(s) - 1)>> \o FrameList(Drop(s, NextMagic(s) - 1))

\* every piece of the stream is one valid, complete frame
ValidFrames(s) == \A i \in 1..Len(FrameList(s)) : decompress(FrameList(s)[i]).exc = "none"

\* the contents of the frames, one after the other
RECURSIVE Contents(_)
Contents(fs) ==
    IF fs = <<>> THEN <<>> ELSE decompress(Head(fs)).ret \o Contents(Tail(fs))

(* C3: when the source ends inside a frame, the raw reader never marks end *)
(* of file (it raises instead), in every copy of the module.               *)
C3_RaisesInsideFrame ==
    (mode = MODE_READ /\ EndsInsideFrame(fpdata)) => ~rd.eof

(* C4: over a source of valid frames back to back, reading yields the      *)
(* contents of the frames one after the other; end of file is marked only  *)
(* when the source has no more bytes, never at the end of a frame alone.   *)
C4_Concatenation ==
    /\ rd.eof => fppos = Len(fpdata)
    /\ (mode = MODE_READ /\ ValidFrames(fpdata)) =>
          /\ ~hist.raised
          /\ IsPrefix(out, Contents(FrameList(fpdata)))
          /\ (pc = "idle" /\ rd.eof) => out = Contents(FrameList(fpdata))

C4_Witness ==
    /\ mode = MODE_READ
    /\ pc = "idle"
    /\ rd.eof
    /\ ValidFrames(fpdata)
    /\ Len(FrameList(fpdata)) = 2
    /\ Len(decompress(FrameList(fpdata)[1]).ret) = MaxLen
    /\ decompress(FrameList(fpdata)[2]).ret # <<>>
    /\ out = Contents(FrameList(fpdata))

(* C5: whatever the sizes passed to read and however the source hands out  *)
(* its bytes, reading to end of file yields what decompress returns for    *)
(* the whole source, and raises only if decompress raises.                 *)
C5_ChunkingIndependent ==
    /\ (mode = MODE_READ /\ pc = "idle" /\ rd.eof) => decompress(fpdata) = Ok(out)
    /\ (mode = MODE_READ /\ decompress(fpdata).exc = "none") => ~hist.raised
    /\ mode = MODE_READ => IsPrefix(out, Decoded(fpdata))

C5_Witness ==
    /\ mode = MODE_READ
    /\ pc = "idle"
    /\ rd.eof
    /\ Len(out) > MaxLen
    /\ fppos = Len(fpdata)
    /\ decompress(fpdata) = Ok(out)

(* C6: after write(d1) .. write(dn) and close(), with no error from the    *)
(* sink, the sink holds complete frames ending at a frame edge, and        *)
(* reading it back yields d1 + .. + dn.                                    *)
C6_WriteCloseReadBack ==
    /\ (hist.opened = "write" /\ mode = MODE_CLOSED /\ ~hist.sinkerr) =>
          decompress(fpdata) = Ok(written)
    /\ (hist.opened = "readback" /\ mode = MODE_READ /\ ~hist.sinkerr) =>
          /\ ~hist.raised
          /\ IsPrefix(out, written)
          /\ (pc = "idle" /\ rd.eof) => out = written

C6_Witness ==
    /\ hist.opened = "readback"
    /\ mode = MODE_READ
    /\ ~hist.sinkerr
    /\ pc = "idle"
    /\ rd.eof
    /\ Len(written) = MaxTotal
    /\ out = written

(* C7, as stated: when write(data) returns, the sink holds enough to       *)
(* decode every byte passed to write so far.                               *)
C7_FlushedAfterWrite ==
    (mode = MODE_WRITE /\ pc = "returned" /\ last.op = "write" /\ last.exc = "none"
       /\ ~hist.sinkerr) => Decoded(fpdata) = written

(* C7, amended: while the file is open for writing, the sink decodes to a  *)
(* prefix of the bytes passed to write so far, and the rest is buffered in *)
(* the compressor; only after close() does the sink decode to all of them. *)
C7_SinkHoldsPrefix ==
    /\ (mode = MODE_WRITE /\ ~hist.sinkerr) =>
          /\ IsPrefix(Decoded(fpdata), written)
          /\ Decoded(fpdata) \o comp.pend = written
    /\ (hist.opened = "write" /\ mode = MODE_CLOSED /\ ~hist.sinkerr) =>
          Decoded(fpdata) = written

C7_Witness ==
    /\ mode = MODE_WRITE
    /\ pc = "returned"
    /\ last.op = "write"
    /\ last.exc = "none"
    /\ ~hist.sinkerr
    /\ Decoded(fpdata) # <<>>
    /\ Decoded(fpdata) # written
    /\ Decoded(fpdata) \o comp.pend = written

(* C8: close() is idempotent: the first call leaves the file closed, and a *)
(* call on a closed file returns without raising and without flushing the  *)
(* compressor, writing to the underlying file or closing it again.         *)
C8_CloseIdempotent ==
    [][(pc = "idle" /\ pc' = "returned" /\ last'.op = "close") =>
          /\ mode' = MODE_CLOSED
          /\ mode = MODE_CLOSED =>
                /\ last'.exc = "none"
                /\ UNCHANGED <<fpdata, fppos, fpcloses, closefp, comp, flushes, wpos>>]_vars

C8_Witness ==
    /\ pc = "returned"
    /\ last.op = "close"
    /\ last.exc = "none"
    /\ hist.opened = "write"
    /\ hist.closes = 2
    /\ flushes = 1
    /\ written # <<>>

(* C9: on a closed file every call but close() raises ValueError, in read  *)
(* mode and in write mode alike; the property closed still answers.        *)
C9_ClosedRaisesValueError ==
    (pc = "returned" /\ mode = MODE_CLOSED) =>
        /\ last.op \notin {"close", "closed"} => last.exc = "ValueError"
        /\ last.op = "closed" => (last.exc = "none" /\ last.val = 1)

C9_Witness ==
    /\ pc = "returned"
    /\ mode = MODE_CLOSED
    /\ hist.opened = "write"
    /\ written # <<>>
    /\ last.op = "write"
    /\ last.exc = "ValueError"

(* C10: write(data) returns len(data); in write mode tell() is the sum of  *)
(* the lengths of the data of the writes that returned; a write that       *)
(* raises leaves the position where it was.                                *)
C10_WritePosition ==
    /\ [](mode = MODE_WRITE => wpos = Len(written))
    /\ []((mode = MODE_WRITE /\ pc = "returned" /\ last.op = "tell") =>
             (last.exc = "none" /\ last.val = Len(written)))
    /\ [][(pc = "idle" /\ pc' = "returned" /\ last'.op = "write") =>
             IF last'.exc = "none"
             THEN /\ last'.val = Len(written') - Len(written)
                  /\ wpos' = wpos + last'.val
             ELSE wpos' = wpos /\ written' = written]_vars

C10_Witness ==
    /\ mode = MODE_WRITE
    /\ pc = "returned"
    /\ last.op = "tell"
    /\ last.val = Len(written)
    /\ written # <<>>
    /\ hist.writes = MaxWrites
    /\ hist.sinkerr

\* a read-mode session over a source that decompress accepts, and its content
ValidSource == mode = MODE_READ /\ decompress(fpdata).exc = "none"
Content == decompress(fpdata).ret

\* what tell() returns in read mode (io.BufferedReader.tell)
Tell == rd.pos - READAHEAD(bufr)

\* seek(offset) has returned, for an offset inside the stream
SeekDone ==
    /\ ValidSource
    /\ pc = "returned"
    /\ last.op = "seek"
    /\ last.whence = SEEK_SET
    /\ 0 <= last.arg
    /\ last.arg <= Len(Content)

\* seek(offset) returns offset and leaves tell() at offset; tell() follows
\* the calls that returned; a read returns the bytes of the stream from the
\* position it started at, and none only for size 0 or at the end.
SeekThenRead ==
    /\ SeekDone => (last.exc = "none" /\ last.val = last.arg /\ Tell = last.arg)
    /\ (ValidSource /\ pc \in {"idle", "returned"}) => Tell = hist.at
    /\ (ValidSource /\ pc = "returned" /\ last.op \in {"read", "read1", "readline"}) =>
          /\ last.exc = "none"
          /\ last.ret = SubSeq(Content, last.from + 1, last.from + Len(last.ret))
          /\ last.ret = <<>> => (last.arg = 0 \/ last.from = Len(Content))

ReadModes == {<<"r">>, <<"r", "b">>}
WriteModes == {<<"w">>, <<"w", "b">>, <<"a">>, <<"a", "b">>, <<"x">>, <<"x", "b">>}

(* C13: the mode of a ZstdFile is CLOSED, READ or WRITE; a construction    *)
(* that succeeds leaves it READ or WRITE as the mode string says; after    *)
(* that the mode changes only to CLOSED, and only in close().              *)
C13_ModeFixed ==
    /\ [](mode \in {MODE_CLOSED, MODE_READ, MODE_WRITE})
    /\ []((pc = "returned" /\ last.op = "init" /\ last.exc = "none") =>
            \/ last.arg.mode \in ReadModes /\ mode = MODE_READ
            \/ last.arg.mode \in WriteModes /\ mode = MODE_WRITE)
    /\ [][(Constructed /\ mode' # mode) =>
            (mode' = MODE_CLOSED /\ last'.op = "close")]_vars
    /\ [][(hist.opened # "none" /\ mode = MODE_CLOSED) => mode' = MODE_CLOSED]_vars

C13_Witness ==
    /\ pc = "returned"
    /\ last.op = "write"
    /\ last.exc = "ValueError"
    /\ mode = MODE_CLOSED
    /\ hist.opened = "write"
    /\ written # <<>>

\* arguments of a construction that name an invalid configuration
InvalidConfig(a) ==
    \/ a.zstd_dict \notin {"None", "ZstdDict"}
    \/ a.mode \notin ReadModes \cup WriteModes
    \/ a.level_or_option \in {"str", "dict_out_of_bounds"}
    \/ a.mode \in ReadModes /\ a.level_or_option = "int"

(* C14: a construction with an invalid level_or_option, zstd_dict or mode  *)
(* fails, yields no file, and leaves the underlying file unopened, unread  *)
(* and unwritten; what a later call raises comes from the state of the     *)
(* file (closed, wrong mode), from the data or from the sink, never from   *)
(* the configuration.                                                      *)
C14_ConfigErrorAtConstruction ==
    /\ [][(pc = "idle" /\ pc' = "returned" /\ last'.op = "init"
             /\ InvalidConfig(last'.arg)) =>
            /\ last'.exc # "none"
            /\ hist'.opened = "failed"
            /\ closefp' = FALSE
            /\ fpcloses' = fpcloses
            /\ fpdata' = fpdata
            /\ fppos' = 0]_vars
    /\ []((Constructed /\ pc = "returned" /\ last.op \notin {"init", "zstd_open"}
             /\ last.exc # "none") =>
            \/ last.exc = "ValueError" /\ mode = MODE_CLOSED
            \/ last.exc = "UnsupportedOperation" /\ mode # MODE_CLOSED
            \/ last.exc = "ZstdError" /\ mode = MODE_READ
                 /\ decompress(fpdata).exc # "none"
            \/ last.exc = "TypeError" /\ last.op = "write" /\ mode = MODE_WRITE
            \/ last.exc = "OSError" /\ last.op \in {"write", "close"})

C14_Witness ==
    /\ pc = "returned"
    /\ last.op = "init"
    /\ last.arg.mode \in WriteModes
    /\ last.arg.level_or_option = "dict_out_of_bounds"
    /\ last.arg.filename = "path"
    /\ last.exc = "ZstdError"
    /\ hist.opened = "failed"
    /\ fpdata # <<>>

\* zstd_open has returned or raised; its mode without the character t
OpenDone == pc = "returned" /\ last.op = "zstd_open"
BinaryMode(str) == SelectSeq(str, LAMBDA c : c # "t")

(* C17: zstd_open raises ValueError for a mode with both t and b, before a *)
(* ZstdFile is constructed; else it constructs the ZstdFile with the mode  *)
(* less its t, and returns a text wrapper exactly when the mode had a t.    *)
C17_ZstdOpen ==
    /\ (OpenDone /\ {"t", "b"} \subseteq Chars(last.arg.mode)) =>
          /\ last.exc = "ValueError"
          /\ hist.opened = "none"
          /\ mode = MODE_CLOSED
    /\ (OpenDone /\ ~({"t", "b"} \subseteq Chars(last.arg.mode))) =>
          /\ hist.opened # "none"
          /\ last.exc = "none" <=>
                /\ BinaryMode(last.arg.mode) \in ReadModes \cup WriteModes
                /\ ~InvalidConfig([last.arg EXCEPT !.mode = BinaryMode(last.arg.mode)])
                /\ last.arg.filename = "file"
          /\ last.exc = "none" =>
                /\ mode = IF BinaryMode(last.arg.mode) \in ReadModes
                          THEN MODE_READ ELSE MODE_WRITE
                /\ last.ret = IF "t" \in Chars(last.arg.mode)
                              THEN <<"TextIOWrapper">> ELSE <<"ZstdFile">>

C17_Witness ==
    /\ OpenDone
    /\ last.arg.mode = <<"r", "t">>
    /\ last.exc = "none"
    /\ last.ret = <<"TextIOWrapper">>
    /\ mode = MODE_READ
    /\ hist.opened = "read"

\* a call that reads has returned or raised, in read mode
ReadCallDone ==
    /\ mode = MODE_READ
    /\ pc = "returned"
    /\ last.op \in {"read", "read1", "readline", "peek"}

(* C15, as stated: once a reading call has raised a stream error, no later *)
(* call on the file returns decompressed data, whatever calls are made.    *)
C15_UnusableAfterError ==
    (ReadCallDone /\ hist.readerr) => last.ret = <<>>

(* C15, amended: once a reading call has raised a stream error, the calls  *)
(* that read return no data (they raise again, or return b"" for size 0)   *)
(* until close() or until a seek rewinds the reader.                       *)
C15_UnusableUntilRewind ==
    (ReadCallDone /\ hist.broken) =>
        /\ last.ret = <<>>
        /\ last.exc = "ZstdError" \/ (last.exc = "none" /\ last.arg = 0)

C15_Witness ==
    /\ ReadCallDone
    /\ hist.broken
    /\ last.exc = "ZstdError"
    /\ last.from > 0
    /\ ~hist.linear

\* the sum of the lengths of the data of the calls that have returned normally
Accepted ==
    LET ok(i) == IF shot.t[i].pc = "done" /\ shot.t[i].exc = "none"
                 THEN Len(shot.t[i].data) ELSE 0
    IN  ok(1) + ok(2)

(* C16: when two write() calls overlap, one of them fails; under every     *)
(* interleaving the sink holds the chunks in the order the compressor made *)
(* them, and the position is the total length of the data accepted.        *)
C16_OverlapDetected ==
    (\A i \in Threads : shot.t[i].pc = "done") =>
        /\ shot.overlap => \E i \in Threads : shot.t[i].exc # "none"
        /\ Decoded(fpdata \o ZstdCompressor_flush(comp).out) = shot.order
        /\ wpos = Accepted

(***************************************************************************)
(* The raw reader on its own (SpecRaw).                                    *)
(***************************************************************************)
RawDone == shot.stage = "raw" /\ shot.done /\ shot.pc = "idle"

(* C18: read(size) with size > 0 that neither raises nor reports EOF       *)
(* returns between 1 and size bytes; it returns b"" only with EOF set, the *)
(* source exhausted and the decompressor asking for input, however many    *)
(* decompressor calls produced nothing; read(0) returns b"" and changes    *)
(* nothing of the source, the decompressor and the reader.                 *)
C18_ReadReturns ==
    /\ [](RawDone /\ shot.size > 0 /\ shot.exc = "none" =>
            /\ Len(shot.ret) <= shot.size
            /\ shot.ret = <<>> =>
                  /\ rd.eof
                  /\ fppos = Len(fpdata)
                  /\ dec.needs_input)
    /\ [][(shot.pc = "idle" /\ shot'.pc = "idle" /\ shot'.done /\ shot'.size = 0)
          => /\ shot'.ret = <<>>
             /\ shot'.exc = "none"
             /\ UNCHANGED <<fppos, dec, rd>>]_vars

C18_Witness ==
    /\ RawDone /\ shot.size > 0 /\ shot.exc = "none"
    /\ shot.passes >= 2
    /\ shot.ret # <<>>

\* the decompressor that was handed the given source bytes once, in order
HandedOnce(bytes) == DecodeLoop([NewDecompressor EXCEPT !.inbuf = bytes], <<>>, -1).d

\* the decompressor after all the output it can still give has been taken
Drained(d) == DecodeLoop(d, <<>>, -1).d

(* C19: the source is read only in a pass that finds the decompressor      *)
(* asking for input; the decompressor, once drained of the output it can   *)
(* still give, is in the state of one that was handed the bytes read from  *)
(* the source so far exactly once and in source order, with the same       *)
(* unconsumed input.                                                       *)
C19_FetchOnlyWhenNeeded ==
    /\ [](shot.stage = "raw" =>
            /\ Drained(dec).stage = HandedOnce(Take(fpdata, fppos)).stage
            /\ Drained(dec).inbuf = HandedOnce(Take(fpdata, fppos)).inbuf)
    /\ [][(shot.pc = "loop" /\ fppos' # fppos) => dec.needs_input]_vars

C19_Witness ==
    /\ RawDone /\ shot.exc = "none" /\ shot.ret # <<>>
    /\ shot.from = fppos
    /\ 0 < fppos /\ fppos < Len(fpdata)

(* C20: the position is the number of bytes returned since construction or *)
(* the last rewind; with EOF set the recorded size is the position, and a  *)
(* read then returns b"" and leaves the source, the decompressor and the   *)
(* reader alone; a read that raises leaves the position and EOF flag as    *)
(* they were.                                                              *)
C20_PositionAndEof ==
    /\ [](shot.stage = "raw" =>
            /\ rd.pos = Len(shot.outall)
            /\ rd.eof => rd.size = rd.pos)
    /\ [][(shot.pc = "idle" /\ shot'.pc = "idle" /\ shot'.done /\ rd.eof)
          => /\ shot'.ret = <<>>
             /\ shot'.exc = "none"
             /\ UNCHANGED <<fppos, dec, rd>>]_vars
    /\ [][(shot.pc = "loop" /\ shot'.exc = "ZstdError")
          => /\ rd'.pos = rd.pos
             /\ rd'.eof = rd.eof]_vars

C20_Witness ==
    /\ RawDone /\ shot.eofbefore /\ shot.size > 0
    /\ rd.eof /\ rd.size = rd.pos /\ rd.pos > 0
    /\ shot.ret = <<>>

(* C21: over a finite source every call read(size) with size > 0 that has  *)
(* entered its loop comes to an end: it returns data, reports EOF or       *)
(* raises; the loop does not go round forever.                             *)
C21_ReadTerminates ==
    (shot.stage = "raw" /\ shot.pc = "loop" /\ shot.size > 0)
        ~> (shot.pc = "idle" /\ shot.done)

C21_Witness ==
    /\ RawDone /\ shot.size > 0 /\ shot.exc = "none"
    /\ shot.passes >= 2
    /\ shot.ret = <<>> /\ rd.eof /\ ~shot.eofbefore

=============================================================================
